---------------------------- MODULE Spec2Model ----------------------------
(***************************************************************************)
(* Model of the Nitro Enclave attestation relay: the enclave sends a       *)
(* length-framed attestation document over vsock (enclave/main.go); the    *)
(* host launches the enclave, receives the frame, decodes the COSE         *)
(* envelope and the evidence payload, reports the PCR table and computes   *)
(* the zero-extended SHA-384 digest of the instance ID (host/main.go).     *)
(*                                                                         *)
(* Bytes are naturals 0..255.  Byte strings, Go strings and hex/decimal    *)
(* renderings are sequences.  64-bit integers are kept at their full       *)
(* width as 8 big-endian bytes (two's complement for signed ones), so      *)
(* that the uint64 -> int conversion and %d rendering are exact.           *)
(***************************************************************************)
EXTENDS Integers, Sequences, FiniteSets, TLC

(***************************************************************************)
(* Bounds of the model.                                                    *)
(***************************************************************************)
\* longest attestation document (in bytes) the NSM hands to the enclave
MaxLen == 3
\* largest number of entries of a decoded "pcrs" map
MaxEntries == 2
\* number of COSE array lengths beyond the 4 required elements
MaxExtraElems == 1
\* longest identity string (in code points) given to CalculateSHA384
MaxInput == 3
\* number of times CalculateSHA384 is applied to one input
MaxCalls == 2

(***************************************************************************)
(* Byte-string helpers.                                                    *)
(***************************************************************************)
Byte == 0..255

Repeat(b, n) == [i \in 1..n |-> b]

Min(a, b) == IF a < b THEN a ELSE b

\* encoding/hex: hextable and EncodeToString (two lowercase digits per byte,
\* high nibble first)
hextable ==
    <<"0", "1", "2", "3", "4", "5", "6", "7",
      "8", "9", "a", "b", "c", "d", "e", "f">>

EncodeToString(src) ==
    [j \in 1..(2 * Len(src)) |->
        IF j % 2 = 1 THEN hextable[(src[(j + 1) \div 2] \div 16) + 1]
                     ELSE hextable[(src[j \div 2] % 16) + 1]]

\* encoding/binary: BigEndian.PutUint32 and BigEndian.Uint32
PutUint32(v) ==
    <<(v \div 16777216) % 256, (v \div 65536) % 256, (v \div 256) % 256, v % 256>>

\* the length prefix decoded in the wrong byte order
Uint32LittleEndian(b) == b[4] * 16777216 + b[3] * 65536 + b[2] * 256 + b[1]

Uint32(b) == b[1] * 16777216 + b[2] * 65536 + b[3] * 256 + b[4]

(***************************************************************************)
(* 64-bit integers as 8 big-endian bytes, and fmt.Sprintf("%d", ...).      *)
(***************************************************************************)
Word64 == [1..8 -> Byte]

IsZero64(w) == \A i \in 1..8 : w[i] = 0

\* the decimal digits are produced six at a time, by dividing by 10^6
Million == 1000000

\* remainder of the unsigned value of the first n bytes of w modulo 10^6
RECURSIVE RemMillion(_, _)
RemMillion(w, n) ==
    IF n = 0 THEN 0 ELSE (RemMillion(w, n - 1) * 256 + w[n]) % Million

\* byte i of the unsigned quotient of w by 10^6 (schoolbook long division,
\* base 256)
QuotMillion(w, i) == (RemMillion(w, i - 1) * 256 + w[i]) \div Million

DivMillion(w) ==
    <<QuotMillion(w, 1), QuotMillion(w, 2), QuotMillion(w, 3), QuotMillion(w, 4),
      QuotMillion(w, 5), QuotMillion(w, 6), QuotMillion(w, 7), QuotMillion(w, 8)>>

DecDigits == <<"0", "1", "2", "3", "4", "5", "6", "7", "8", "9">>

\* decimal digits of a natural number below 10^6, without leading zeros
RECURSIVE NatDigits(_)
NatDigits(n) ==
    IF n < 10 THEN <<DecDigits[n + 1]>>
    ELSE Append(NatDigits(n \div 10), DecDigits[(n % 10) + 1])

\* the six decimal digits of a natural number below 10^6
SixDigits(n) ==
    <<DecDigits[((n \div 100000) % 10) + 1], DecDigits[((n \div 10000) % 10) + 1],
      DecDigits[((n \div 1000) % 10) + 1],   DecDigits[((n \div 100) % 10) + 1],
      DecDigits[((n \div 10) % 10) + 1],     DecDigits[(n % 10) + 1]>>

\* decimal digits of the unsigned value of w, most significant first
RECURSIVE FormatUint(_)
FormatUint(w) ==
    LET q == DivMillion(w) IN
    IF IsZero64(q) THEN NatDigits(RemMillion(w, 8))
    ELSE FormatUint(q) \o SixDigits(RemMillion(w, 8))

\* two's complement negation: invert the bytes and add one
RECURSIVE Carry(_, _)
Carry(w, i) ==
    \* carry into byte i of (~w + 1): 1 iff all bytes after i invert to 255
    IF i = 8 THEN 1
    ELSE IF Carry(w, i + 1) = 1 /\ 255 - w[i + 1] = 255 THEN 1 ELSE 0

NegByte(w, i) == (255 - w[i] + Carry(w, i)) % 256

Negate64(w) ==
    <<NegByte(w, 1), NegByte(w, 2), NegByte(w, 3), NegByte(w, 4),
      NegByte(w, 5), NegByte(w, 6), NegByte(w, 7), NegByte(w, 8)>>

IsNegative64(w) == w[1] >= 128

\* fmt.Sprintf("%d", x) for a signed 64-bit x given in two's complement
FormatInt(w) ==
    IF IsNegative64(w) THEN <<"-">> \o FormatUint(Negate64(w))
    ELSE FormatUint(w)

\* Go's int(x) for x of type uint64 on a 64-bit target: the bits are kept,
\* the value is reinterpreted as signed
IntOfUint64(w) == w


(***************************************************************************)
(* CBOR data items (what a byte string encodes) and the Go values that     *)
(* fxamacker/cbor produces for them when decoding into interface{}.        *)
(***************************************************************************)
\* Every item carries the same fields: kind; bytes (the argument of an
\* integer or float as 8 bytes, the content of a string); items (the elements
\* of an array); map (key item -> value item).  A byte string that carries
\* an encoded document (the COSE payload) is represented by the data item
\* its content encodes, as the one element of items.
Item(kind, bytes, items, map) ==
    [kind |-> kind, bytes |-> bytes, items |-> items, map |-> map]

EmptyMap == [y \in {} |-> <<>>]

CborUint(w)    == Item("uint", w, <<>>, EmptyMap)
CborNegint(w)  == Item("negint", w, <<>>, EmptyMap)   \* the integer -1 - w
CborBstr(b)    == Item("bstr", b, <<>>, EmptyMap)
CborTstr(b)    == Item("tstr", b, <<>>, EmptyMap)     \* UTF-8 bytes of the text
CborFloat(w)   == Item("float", w, <<>>, EmptyMap)
CborArray(s)   == Item("array", <<>>, s, EmptyMap)
CborMap(f)     == Item("map", <<>>, <<>>, f)
CborNull       == Item("null", <<>>, <<>>, EmptyMap)
\* bytes that are not one well-formed CBOR data item
NotCbor        == Item("invalid", <<>>, <<>>, EmptyMap)
\* a byte string whose content encodes the data item r
CborEmbedded(r) == Item("bstr", <<>>, <<r>>, EmptyMap)

\* A Go value of dynamic type t: b holds the bytes of a number, string or
\* []byte; elems the elements of a []interface{}; m the entries of a map;
\* doc, for a []byte, the data item its bytes encode (if represented so).
GoValue(t, b, elems, m, doc) ==
    [t |-> t, b |-> b, elems |-> elems, m |-> m, doc |-> doc]

GoNil == GoValue("nil", <<>>, <<>>, EmptyMap, <<>>)

GoScalar(t, b) == GoValue(t, b, <<>>, EmptyMap, <<>>)

\* cbor.Unmarshal into an interface{}: unsigned integers become uint64,
\* negative integers int64, byte strings []byte, text strings string,
\* arrays []interface{} and maps map[interface{}]interface{}
RECURSIVE DecodeInterface(_)
DecodeInterface(item) ==
    CASE item.kind = "uint"   -> GoScalar("uint64", item.bytes)
      [] item.kind = "negint" -> GoScalar("int64", [i \in 1..8 |-> 255 - item.bytes[i]])
      [] item.kind = "bstr"   -> GoValue("[]byte", item.bytes, <<>>, EmptyMap, item.items)
      [] item.kind = "tstr"   -> GoScalar("string", item.bytes)
      [] item.kind = "float"  -> GoScalar("float64", item.bytes)
      [] item.kind = "array"  ->
            GoValue("[]interface {}", <<>>,
                    [i \in 1..Len(item.items) |-> DecodeInterface(item.items[i])],
                    EmptyMap, <<>>)
      [] item.kind = "map"    ->
            GoValue("map[interface {}]interface {}", <<>>, <<>>,
                    [k \in {DecodeInterface(x) : x \in DOMAIN item.map} |->
                        DecodeInterface(item.map[
                            CHOOSE x \in DOMAIN item.map : DecodeInterface(x) = k])],
                    <<>>)
      [] OTHER                -> GoNil

\* cbor.Unmarshal(doc, &coseMessage) with coseMessage of type []interface{}:
\* an array decodes element by element, null leaves the nil slice, anything
\* else is an error
UnmarshalSlice(item) ==
    CASE item.kind = "array" -> [err |-> FALSE, val |-> DecodeInterface(item).elems]
      [] item.kind = "null"  -> [err |-> FALSE, val |-> <<>>]
      [] OTHER               -> [err |-> TRUE,  val |-> <<>>]

\* the data item the bytes of a []byte encode
DocOf(bytesValue) ==
    IF Len(bytesValue.doc) = 1 THEN bytesValue.doc[1] ELSE NotCbor

\* cbor.Unmarshal(payload, &attestationReport) with attestationReport of type
\* map[string]interface{}: a map whose keys are all text strings decodes,
\* null leaves the nil map, anything else is an error
UnmarshalStringMap(item) ==
    CASE item.kind = "map" /\ (\A k \in DOMAIN item.map : k.kind = "tstr") ->
            [err |-> FALSE,
             val |-> [s \in {k.bytes : k \in DOMAIN item.map} |->
                        DecodeInterface(item.map[CborTstr(s)])]]
      [] item.kind = "null" -> [err |-> FALSE, val |-> EmptyMap]
      [] OTHER              -> [err |-> TRUE,  val |-> EmptyMap]

(***************************************************************************)
(* parseAttestationDocumentGo.                                             *)
(***************************************************************************)
\* the Go string "pcrs" as bytes
pcrsKey == <<112, 99, 114, 115>>

\* m[k] = x on a Go map
MapPut(m, k, x) == [y \in (DOMAIN m) \cup {k} |-> IF y = k THEN x ELSE m[y]]

\* the error values parseAttestationDocumentGo returns
ErrNone           == "nil"
ErrUnmarshalOuter == "failed to unmarshal COSE message (outer CBOR)"
ErrTooFewElements == "malformed COSE message: expected at least 4 elements"
ErrPayloadType    == "malformed COSE message: payload is not a byte array"
ErrUnmarshalInner == "failed to unmarshal attestation report (inner CBOR payload)"
ErrPcrsField      == "pcrs field not found or not a map in attestation report"

\* the element count checked against 3 instead of 4
TooFewElementsOffByOne(coseMessage) == Len(coseMessage) < 3

\* len(coseMessage) < 4
TooFewElements(coseMessage) == Len(coseMessage) < 4

\* payload, ok := coseMessage[2].([]byte)
PayloadOf(coseMessage) ==
    IF coseMessage[3].t = "[]byte" THEN [ok |-> TRUE, payload |-> coseMessage[3]]
    ELSE [ok |-> FALSE, payload |-> GoNil]

\* a missing or wrongly typed "pcrs" taken as an empty table
PcrsRawOfLenient(attestationReport) ==
    IF /\ pcrsKey \in DOMAIN attestationReport
       /\ attestationReport[pcrsKey].t = "map[interface {}]interface {}"
    THEN [ok |-> TRUE, pcrsRaw |-> attestationReport[pcrsKey].m]
    ELSE [ok |-> TRUE, pcrsRaw |-> EmptyMap]

\* pcrsRaw, ok := attestationReport["pcrs"].(map[interface{}]interface{})
PcrsRawOf(attestationReport) ==
    IF /\ pcrsKey \in DOMAIN attestationReport
       /\ attestationReport[pcrsKey].t = "map[interface {}]interface {}"
    THEN [ok |-> TRUE, pcrsRaw |-> attestationReport[pcrsKey].m]
    ELSE [ok |-> FALSE, pcrsRaw |-> EmptyMap]

\* the key of one pcrs entry: k.(uint64) converted with int(), else k.(int)
PcrIndexOf(k) ==
    IF k.t = "uint64" THEN [ok |-> TRUE, pcrIndex |-> IntOfUint64(k.b)]
    ELSE IF k.t = "int" THEN [ok |-> TRUE, pcrIndex |-> k.b]
    ELSE [ok |-> FALSE, pcrIndex |-> Repeat(0, 8)]

\* the value of one pcrs entry: v.([]byte), else v.([]uint8); []uint8 and
\* []byte are the same Go type, so the second assertion decides nothing more
PcrValueOf(v) ==
    IF v.t = "[]byte" THEN [ok |-> TRUE, pcrValueBytes |-> v.b]
    ELSE [ok |-> FALSE, pcrValueBytes |-> <<>>]

\* the loop body with the zero-value filter applied while building the table
PcrLoopBodyDropsZero(acc, k, v) ==
    LET idx == PcrIndexOf(k)
        val == PcrValueOf(v)
    IN  IF ~idx.ok
        THEN [acc EXCEPT !.warnings = Append(@, [what |-> "key", k |-> k, v |-> v])]
        ELSE IF ~val.ok
        THEN [acc EXCEPT !.warnings = Append(@, [what |-> "value", k |-> k, v |-> v])]
        ELSE IF EncodeToString(val.pcrValueBytes) = Repeat("0", 96)
        THEN acc
        ELSE [acc EXCEPT !.pcrTable =
                MapPut(@, FormatInt(idx.pcrIndex), EncodeToString(val.pcrValueBytes))]

\* one iteration of `for k, v := range pcrsRaw`; warnings are the log lines
\* of the skipped entries
PcrLoopBody(acc, k, v) ==
    LET idx == PcrIndexOf(k)
        val == PcrValueOf(v)
    IN  IF ~idx.ok
        THEN [acc EXCEPT !.warnings = Append(@, [what |-> "key", k |-> k, v |-> v])]
        ELSE IF ~val.ok
        THEN [acc EXCEPT !.warnings = Append(@, [what |-> "value", k |-> k, v |-> v])]
        ELSE [acc EXCEPT !.pcrTable =
                MapPut(@, FormatInt(idx.pcrIndex), EncodeToString(val.pcrValueBytes))]

\* the range loop over pcrsRaw, visiting the keys in the given order
RECURSIVE PcrLoop(_, _, _)
PcrLoop(pcrsRaw, order, n) ==
    IF n = 0 THEN [pcrTable |-> EmptyMap, warnings |-> <<>>]
    ELSE PcrLoopBody(PcrLoop(pcrsRaw, order, n - 1), order[n], pcrsRaw[order[n]])

\* return nil, fmt.Errorf(...); steps lists the decoding steps executed
ParseFail(e, st) ==
    [isNil |-> TRUE, pcrTable |-> EmptyMap, err |-> e, warnings |-> <<>>, steps |-> st]

\* coseItem is the data item the document's bytes encode.  The payload byte
\* string (element 2) is represented by the data item its bytes encode.
\* order is the order in which the range loop visits the keys it finds in
\* pcrsRaw (Go leaves the iteration order of a map unspecified).
parseAttestationDocumentGo(coseItem, order) ==
    LET coseMessage == UnmarshalSlice(coseItem) IN
    IF coseMessage.err THEN ParseFail(ErrUnmarshalOuter, <<"envelope">>)
    ELSE IF TooFewElements(coseMessage.val)
         THEN ParseFail(ErrTooFewElements, <<"envelope">>)
    ELSE IF ~PayloadOf(coseMessage.val).ok
         THEN ParseFail(ErrPayloadType, <<"envelope">>)
    ELSE
    LET attestationReport == UnmarshalStringMap(DocOf(PayloadOf(coseMessage.val).payload)) IN
    IF attestationReport.err THEN ParseFail(ErrUnmarshalInner, <<"envelope", "payload">>)
    ELSE IF ~PcrsRawOf(attestationReport.val).ok
         THEN ParseFail(ErrPcrsField, <<"envelope", "payload">>)
    ELSE
    LET pcrsRaw == PcrsRawOf(attestationReport.val).pcrsRaw
        keys    == SelectSeq(order, LAMBDA k : k \in DOMAIN pcrsRaw)
        res     == PcrLoop(pcrsRaw, keys, Len(keys))
    IN  [isNil |-> FALSE, pcrTable |-> res.pcrTable, err |-> ErrNone,
         warnings |-> res.warnings, steps |-> <<"envelope", "payload", "pcrs">>]

\* the 96-character rendering of the 48-byte all-zero digest that main
\* compares against (host/main.go line 79)
zeroPcr == Repeat("0", 96)

\* the presentation loop of main: the entries of pcrTable, in the order the
\* range loop visits them, that differ from the zero value
RECURSIVE PresentLoop(_, _, _)
PresentLoop(pcrTable, order, n) ==
    IF n = 0 THEN <<>>
    ELSE LET rest == PresentLoop(pcrTable, order, n - 1)
             pcrIndex == order[n]
             pcrValue == pcrTable[pcrIndex]
         IN  IF pcrValue # zeroPcr
             THEN Append(rest, [pcrIndex |-> pcrIndex, pcrValue |-> pcrValue])
             ELSE rest

(***************************************************************************)
(* receiveAttestationDocument and the sender's framing.                    *)
(***************************************************************************)
\* a read that reports no error when the stream ends early and leaves the
\* rest of the zeroed buffer as it is
ReadFullIgnoringEOF(avail, closed, n) ==
    IF Len(avail) >= n
    THEN [blocked |-> FALSE, read |-> SubSeq(avail, 1, n), err |-> "nil"]
    ELSE IF closed
    THEN [blocked |-> FALSE, read |-> avail \o Repeat(0, n - Len(avail)), err |-> "nil"]
    ELSE [blocked |-> TRUE, read |-> <<>>, err |-> "nil"]

\* io.ReadFull(conn, buf) with len(buf) = n, on a stream that currently
\* holds avail and whose writing end is closed or not: it returns at once
\* for n = 0, returns n bytes once they have arrived, blocks while they
\* may still arrive, and fails with EOF (nothing read) or ErrUnexpectedEOF
\* (some bytes read) when the stream ends first.  read is what it consumed.
ReadFull(avail, closed, n) ==
    IF n = 0 THEN [blocked |-> FALSE, read |-> <<>>, err |-> "nil"]
    ELSE IF Len(avail) >= n
    THEN [blocked |-> FALSE, read |-> SubSeq(avail, 1, n), err |-> "nil"]
    ELSE IF closed
    THEN [blocked |-> FALSE, read |-> avail,
          err |-> IF Len(avail) = 0 THEN "EOF" ELSE "unexpected EOF"]
    ELSE [blocked |-> TRUE, read |-> <<>>, err |-> "nil"]

Drop(seq, n) == SubSeq(seq, n + 1, Len(seq))

\* a []byte result: nil, or a byte string
NilBytes     == [isNil |-> TRUE,  bytes |-> <<>>]
SomeBytes(b) == [isNil |-> FALSE, bytes |-> b]

ErrReadLength  == "failed to read attestation document length"
ErrReadContent == "failed to read attestation document content"

(***************************************************************************)
(* launchEnclave: what it returns for the output of nitro-cli run-enclave. *)
(* out.cmdErr: the command failed; out.jsonStart / out.jsonEnd: the        *)
(* positions of the first "{" and the last "}" (-1 when absent);           *)
(* out.jsonOk: the block between them parses; out.EnclaveID its field.     *)
(***************************************************************************)
launchEnclave(out) ==
    IF out.cmdErr THEN [err |-> TRUE, enclaveID |-> ""]
    ELSE IF out.jsonStart = -1 THEN [err |-> TRUE, enclaveID |-> ""]
    ELSE IF out.jsonEnd = -1 THEN [err |-> TRUE, enclaveID |-> ""]
    ELSE IF out.jsonStart > out.jsonEnd THEN [err |-> TRUE, enclaveID |-> ""]
    ELSE IF ~out.jsonOk THEN [err |-> TRUE, enclaveID |-> ""]
    ELSE [err |-> FALSE, enclaveID |-> out.EnclaveID]

(***************************************************************************)
(* CalculateSHA384.  crypto/sha512's digest is modelled by a small         *)
(* streaming hash with the same interface: New384 gives the initial state, *)
(* Write absorbs bytes, in order, into the running state (h, with n the    *)
(* number of bytes absorbed so far), Sum gives 48 bytes of output.         *)
(***************************************************************************)
New384 == [h |-> 40503, n |-> 0]

\* what absorbing the bytes p[lo..hi] adds to the state, the first n bytes
\* having been absorbed before p (the range is split in halves)
RECURSIVE Absorb(_, _, _, _)
Absorb(n, p, lo, hi) ==
    IF lo > hi THEN 0
    ELSE IF lo = hi THEN (((n + lo) * 31 + 7) * ((p[lo] + 1) * (p[lo] + 1) + 5)) % 65521
    ELSE (Absorb(n, p, lo, (lo + hi) \div 2)
          + Absorb(n, p, ((lo + hi) \div 2) + 1, hi)) % 65521

Write(d, p) == [h |-> (d.h + Absorb(d.n, p, 1, Len(p))) % 65521, n |-> d.n + Len(p)]

Sum(d) == [i \in 1..48 |-> ((d.h + 7 * d.n) * (2 * i + 1) + i * i) % 256]

\* the UTF-8 encoding of one code point below 2048
Utf8(c) == IF c < 128 THEN <<c>> ELSE <<192 + (c \div 64), 128 + (c % 64)>>

\* []byte(input): the UTF-8 encoding of the string's first n code points
RECURSIVE Utf8Prefix(_, _)
Utf8Prefix(input, n) ==
    IF n = 0 THEN <<>> ELSE Utf8Prefix(input, n - 1) \o Utf8(input[n])

StringBytes(input) == Utf8Prefix(input, Len(input))

nullBytes == Repeat(0, 48)

\* the digest of the zero bytes hashed again with the input: two rounds
CalculateSHA384TwoRounds(input) ==
    LET h1 == Write(New384, nullBytes)
        h2 == Write(New384, Sum(h1) \o StringBytes(input))
    IN  EncodeToString(Sum(h2))

CalculateSHA384(input) ==
    LET h0 == New384
        h1 == Write(h0, nullBytes)
        h2 == Write(h1, StringBytes(input))
        hashSum == Sum(h2)
    IN  EncodeToString(hashSum)

(***************************************************************************)
(* The inputs the environment can supply.                                  *)
(***************************************************************************)
\* the bytes of the documents the NSM can return
DocBytes == {0, 255}
Docs == UNION {[1..n -> DocBytes] : n \in 0..MaxLen}

\* 64-bit key values: 0, 2^63 - 1 and 2^63
U0       == Repeat(0, 8)
UMaxInt  == [i \in 1..8 |-> IF i = 1 THEN 127 ELSE 255]
UMinWrap == [i \in 1..8 |-> IF i = 1 THEN 128 ELSE 0]
\* the IEEE 754 double 1.5
F15      == [i \in 1..8 |-> IF i = 1 THEN 63 ELSE IF i = 2 THEN 248 ELSE 0]

Zero48   == Repeat(0, 48)
Digest48 == [i \in 1..48 |-> (i * 171) % 256]

PcrKeyItems ==
    {CborUint(U0), CborUint(UMaxInt), CborUint(UMinWrap),
     CborNegint(U0), CborFloat(F15)}

PcrValueItems ==
    {CborBstr(Zero48), CborBstr(Digest48), CborBstr(<<0>>),
     CborArray(<<CborUint(U0), CborUint(U0)>>)}

PcrMapItems ==
    {CborMap(f) : f \in UNION {[S -> PcrValueItems] :
        S \in {T \in SUBSET PcrKeyItems : Cardinality(T) <= MaxEntries}}}

\* the text-string keys "pcrs" and "module_id"
PcrsTstr     == CborTstr(pcrsKey)
ModuleIdTstr == CborTstr(<<109, 111, 100, 117, 108, 101, 95, 105, 100>>)
ModuleIdVal  == CborTstr(<<105, 45, 48>>)

\* the data items the payload bytes can encode
ReportItems ==
    {NotCbor, CborNull, CborArray(<<>>),
     CborMap([k \in {CborUint(U0)} |-> CborBstr(Zero48)]),
     CborMap(EmptyMap),
     CborMap([k \in {ModuleIdTstr} |-> ModuleIdVal]),
     CborMap([k \in {PcrsTstr} |-> CborTstr(<<48>>)]),
     CborMap([k \in {PcrsTstr, ModuleIdTstr} |->
                IF k = PcrsTstr THEN CborArray(<<>>) ELSE ModuleIdVal])}
    \cup {CborMap([k \in {PcrsTstr, ModuleIdTstr} |->
                IF k = PcrsTstr THEN m ELSE ModuleIdVal]) : m \in PcrMapItems}

\* a COSE_Sign1 array cut or extended to n elements, with x as element 2
CoseElems(x) ==
    <<CborBstr(<<161, 1, 56, 34>>), CborMap(EmptyMap), x,
      CborBstr(<<1, 2, 3>>)>> \o [i \in 1..MaxExtraElems |-> CborNull]

CoseArray(n, x) == CborArray(SubSeq(CoseElems(x), 1, n))

\* the data items the document bytes can encode
CoseItems ==
    {NotCbor, CborNull, CborMap(EmptyMap), CborUint(U0)}
    \cup {CoseArray(n, CborEmbedded(NotCbor)) : n \in 0..3}
    \cup {CoseArray(n, CborTstr(<<48>>)) : n \in 3..(4 + MaxExtraElems)}
    \cup {CoseArray(n, CborEmbedded(r)) : n \in 4..(4 + MaxExtraElems), r \in ReportItems}

\* the documents main is run on: one for each way parsing can end
MainItems ==
    {NotCbor,
     CoseArray(3, CborEmbedded(NotCbor)),
     CoseArray(4, CborTstr(<<48>>)),
     CoseArray(4, CborEmbedded(NotCbor)),
     CoseArray(4, CborEmbedded(CborMap([k \in {ModuleIdTstr} |-> ModuleIdVal]))),
     CoseArray(4, CborEmbedded(CborMap([k \in {PcrsTstr, ModuleIdTstr} |->
        IF k = PcrsTstr
        THEN CborMap([i \in {CborUint(U0), CborUint(UMaxInt)} |->
                        IF i = CborUint(U0) THEN CborBstr(Zero48)
                        ELSE CborBstr(Digest48)])
        ELSE ModuleIdVal])))}

Perms(S) ==
    {q \in [1..Cardinality(S) -> S] :
        \A i, j \in 1..Cardinality(S) : i # j => q[i] # q[j]}

\* the keys of the decoded pcrs map of a document (none when there is no
\* such map): the range loop visits them in some order
PcrsKeysOf(item) ==
    LET report == IF item.kind = "array" /\ Len(item.items) >= 3
                     /\ Len(item.items[3].items) = 1
                  THEN item.items[3].items[1] ELSE NotCbor
    IN  IF PcrsTstr \in DOMAIN report.map /\ report.map[PcrsTstr].kind = "map"
        THEN {DecodeInterface(k) : k \in DOMAIN report.map[PcrsTstr].map}
        ELSE {}

\* what nitro-cli run-enclave can print
LaunchOutputs ==
    {[cmdErr |-> TRUE,  jsonStart |-> -1, jsonEnd |-> -1, jsonOk |-> FALSE, EnclaveID |-> ""],
     [cmdErr |-> FALSE, jsonStart |-> -1, jsonEnd |-> 9,  jsonOk |-> FALSE, EnclaveID |-> ""],
     [cmdErr |-> FALSE, jsonStart |-> 3,  jsonEnd |-> -1, jsonOk |-> FALSE, EnclaveID |-> ""],
     [cmdErr |-> FALSE, jsonStart |-> 9,  jsonEnd |-> 3,  jsonOk |-> FALSE, EnclaveID |-> ""],
     [cmdErr |-> FALSE, jsonStart |-> 3,  jsonEnd |-> 9,  jsonOk |-> FALSE, EnclaveID |-> ""],
     [cmdErr |-> FALSE, jsonStart |-> 3,  jsonEnd |-> 9,  jsonOk |-> TRUE,
      EnclaveID |-> "i-0abc-enc0123"]}

\* the instance IDs (as code points) the metadata service can return
InstanceIDs == {<<105, 45, 48>>}

\* the identity strings CalculateSHA384 is applied to: "i", "-" and e-acute
InputChars == {105, 45, 233}
Inputs == UNION {[1..n -> InputChars] : n \in 0..MaxInput}

(***************************************************************************)
(* State.                                                                  *)
(***************************************************************************)
VARIABLES
    \* host/main.go: main
    hostPc,          \* where main is: "build", "launch", "listen", "accept",
                     \* "receiveLen", "receiveDoc", "parse", "instance",
                     \* "return", and "fatal" / "returned" once it has exited
    fatal,           \* the log.Fatalf that ended main: its step and error
    deferred,        \* the stack of deferred calls
    enclaveID,       \* the ID launchEnclave returned
    listener,        \* the vsock listener: "none", "open", "closed"
    conn,            \* the accepted connection: "none", "open", "closed"
    lenBytes,        \* receiveAttestationDocument: the length prefix read
    docLen,          \* receiveAttestationDocument: the decoded length
    attestationDoc,  \* what receiveAttestationDocument returned
    received,        \* "pending", "ok" or "err": its outcome
    consumed,        \* number of bytes it read from the connection
    coseItem,        \* the data item the received bytes encode
    parsed,          \* what parseAttestationDocumentGo returned
    presented,       \* the PCR lines main logged
    shaLog,          \* the digests main logged
    stages,          \* the pipeline steps executed so far, in order
    terminateCalls,  \* the IDs terminateEnclave was run with
    \* the enclave and enclave/main.go: main
    enclaveRun,      \* "absent", "running", "terminated"
    encPc,           \* "off", "getDoc", "dial", "sendLen", "sendDoc",
                     \* "done", "fatal"
    encDoc,          \* the enclave's attestationDoc
    sent,            \* every byte the enclave wrote to the connection
    wire,            \* the bytes written and not yet read by the host
    encConn,         \* the enclave's end of the connection: "none", "open",
                     \* "closed"
    \* the calls of CalculateSHA384 on its own
    hInput,          \* the input string
    hCalls           \* the results of the calls made so far

recvVars  == <<lenBytes, docLen, attestationDoc, received, consumed>>
parseVars == <<coseItem, parsed, presented>>
sockVars  == <<listener, conn>>
encVars   == <<encPc, encDoc, sent, wire, encConn>>
hashVars  == <<hInput, hCalls>>

vars == <<hostPc, fatal, deferred, enclaveID, sockVars, recvVars, parseVars,
          shaLog, stages, terminateCalls, enclaveRun, encVars, hashVars>>

NoFatal   == [step |-> "", err |-> "", cause |-> ""]
NotParsed == [isNil |-> TRUE, pcrTable |-> EmptyMap, err |-> "not run",
              warnings |-> <<>>, steps |-> <<>>]

MainInit ==
    /\ hostPc = "build"
    /\ fatal = NoFatal
    /\ deferred = <<>>
    /\ enclaveID = ""
    /\ listener = "none"
    /\ conn = "none"
    /\ lenBytes = <<>>
    /\ docLen = 0
    /\ attestationDoc = NilBytes
    /\ received = "pending"
    /\ consumed = 0
    /\ coseItem = NotCbor
    /\ parsed = NotParsed
    /\ presented = <<>>
    /\ shaLog = <<>>
    /\ stages = <<>>
    /\ terminateCalls = <<>>
    /\ enclaveRun = "absent"
    /\ encPc = "off"
    /\ encDoc = <<>>
    /\ sent = <<>>
    /\ wire = <<>>
    /\ encConn = "none"

Init == MainInit /\ hInput = <<>> /\ hCalls = <<>>

(***************************************************************************)
(* host/main.go: main.                                                     *)
(***************************************************************************)
\* log.Fatalf: the message is logged and os.Exit(1) ends the process at
\* once; deferred calls are not run, the process's sockets are closed
Fatalf(step, err, cause) ==
    /\ hostPc' = "fatal"
    /\ fatal' = [step |-> step, err |-> err, cause |-> cause]
    /\ listener' = IF listener = "open" THEN "closed" ELSE listener
    /\ conn' = IF conn = "open" THEN "closed" ELSE conn
    /\ UNCHANGED deferred

\* buildEIF: docker build and nitro-cli build-enclave
HostBuild ==
    /\ hostPc = "build"
    /\ \E ok \in BOOLEAN :
          IF ok THEN hostPc' = "launch" /\ UNCHANGED <<fatal, deferred, sockVars>>
          ELSE Fatalf("build", "build failed", "")
    /\ UNCHANGED <<enclaveID, recvVars, parseVars, shaLog, stages, terminateCalls,
                   enclaveRun, encVars, hashVars>>

\* enclaveID, err := launchEnclave(...); defer terminateEnclave(enclaveID)
HostLaunch ==
    /\ hostPc = "launch"
    /\ \E out \in LaunchOutputs :
          LET r == launchEnclave(out) IN
          IF r.err
          THEN /\ Fatalf("launch", "Failed to launch enclave", "")
               /\ UNCHANGED <<enclaveID, enclaveRun, encPc>>
          ELSE /\ hostPc' = "listen"
               /\ enclaveID' = r.enclaveID
               /\ deferred' = Append(deferred, "terminateEnclave")
               /\ enclaveRun' = "running"
               /\ encPc' = "getDoc"
               /\ UNCHANGED <<fatal, sockVars>>
    /\ UNCHANGED <<recvVars, parseVars, shaLog, stages, terminateCalls,
                   encDoc, sent, wire, encConn, hashVars>>

\* listener, err := vsock.Listen(...); defer listener.Close()
HostListen ==
    /\ hostPc = "listen"
    /\ \E ok \in BOOLEAN :
          IF ok
          THEN /\ hostPc' = "accept"
               /\ listener' = "open"
               /\ deferred' = Append(deferred, "listener.Close")
               /\ UNCHANGED <<fatal, conn>>
          ELSE Fatalf("listen", "Failed to listen on vsock port", "")
    /\ UNCHANGED <<enclaveID, recvVars, parseVars, shaLog, stages, terminateCalls,
                   enclaveRun, encVars, hashVars>>

\* conn, err := listener.Accept(); defer conn.Close().  Accept returns a
\* connection once the enclave has dialled, or fails.
HostAccept ==
    /\ hostPc = "accept"
    /\ \/ /\ encConn # "none"
          /\ hostPc' = "receiveLen"
          /\ conn' = "open"
          /\ deferred' = Append(deferred, "conn.Close")
          /\ UNCHANGED <<fatal, listener>>
       \/ Fatalf("accept", "Failed to accept vsock connection", "")
    /\ UNCHANGED <<enclaveID, recvVars, parseVars, shaLog, stages, terminateCalls,
                   enclaveRun, encVars, hashVars>>

\* receiveAttestationDocument, up to the length prefix:
\* io.ReadFull(conn, lenBytes); docLen := binary.BigEndian.Uint32(lenBytes)
HostReceiveLen ==
    /\ hostPc = "receiveLen"
    /\ LET r == ReadFull(wire, encConn = "closed", 4) IN
       /\ ~r.blocked
       /\ wire' = Drop(wire, Len(r.read))
       /\ consumed' = consumed + Len(r.read)
       /\ stages' = Append(stages, "receive")
       /\ IF r.err # "nil"
          THEN /\ Fatalf("receive", ErrReadLength, r.err)
               /\ received' = "err"
               /\ attestationDoc' = NilBytes
               /\ UNCHANGED <<lenBytes, docLen>>
          ELSE /\ hostPc' = "receiveDoc"
               /\ lenBytes' = r.read
               /\ docLen' = Uint32(r.read)
               /\ UNCHANGED <<fatal, deferred, sockVars, received, attestationDoc>>
    /\ UNCHANGED <<enclaveID, parseVars, shaLog, terminateCalls, enclaveRun,
                   encPc, encDoc, sent, encConn, hashVars>>

\* receiveAttestationDocument, the document:
\* attestationDoc := make([]byte, docLen); io.ReadFull(conn, attestationDoc)
HostReceiveDoc ==
    /\ hostPc = "receiveDoc"
    /\ LET r == ReadFull(wire, encConn = "closed", docLen) IN
       /\ ~r.blocked
       /\ wire' = Drop(wire, Len(r.read))
       /\ consumed' = consumed + Len(r.read)
       /\ IF r.err # "nil"
          THEN /\ Fatalf("receive", ErrReadContent, r.err)
               /\ received' = "err"
               /\ attestationDoc' = NilBytes
          ELSE /\ hostPc' = "parse"
               /\ received' = "ok"
               /\ attestationDoc' = SomeBytes(r.read)
               /\ UNCHANGED <<fatal, deferred, sockVars>>
    /\ UNCHANGED <<enclaveID, lenBytes, docLen, parseVars, shaLog, stages,
                   terminateCalls, enclaveRun, encPc, encDoc, sent, encConn,
                   hashVars>>

\* the error of parseAttestationDocumentGo left unchecked
ParseFailedNever(res) == FALSE

\* if err != nil { log.Fatalf("Failed to parse attestation document ...") }
ParseFailed(res) == res.err # ErrNone

\* pcrTable, err := parseAttestationDocumentGo(attestationDoc), then the
\* loop that logs the PCRs.  item is the data item the received bytes
\* encode, one of items; order and shown are the orders of the two range
\* loops.
ParseAndReport(items) ==
    /\ hostPc = "parse"
    /\ \E item \in items :
       \E order \in Perms(PcrsKeysOf(item)) :
          LET res == parseAttestationDocumentGo(item, order) IN
          /\ coseItem' = item
          /\ parsed' = res
          /\ IF ParseFailed(res)
             THEN /\ Fatalf("parse", res.err, "")
                  /\ stages' = stages \o res.steps
                  /\ UNCHANGED presented
             ELSE /\ \E shown \in Perms(DOMAIN res.pcrTable) :
                        presented' = PresentLoop(res.pcrTable, shown, Len(shown))
                  /\ stages' = (stages \o res.steps) \o <<"report">>
                  /\ hostPc' = "instance"
                  /\ UNCHANGED <<fatal, deferred, sockVars>>
    /\ UNCHANGED <<enclaveID, recvVars, shaLog, terminateCalls, enclaveRun,
                   encVars, hashVars>>

\* the parse step of a run of main
HostParse == ParseAndReport(MainItems)

\* instanceID, err := GetInstanceID(ctx), logging CalculateSHA384(instanceID)
\* when there is no error; defer cancel()
HostInstance ==
    /\ hostPc = "instance"
    /\ \/ UNCHANGED shaLog
       \/ \E instanceID \in InstanceIDs :
             shaLog' = Append(shaLog, CalculateSHA384(instanceID))
    /\ hostPc' = "return"
    /\ deferred' = Append(deferred, "cancel")
    /\ UNCHANGED <<fatal, enclaveID, sockVars, recvVars, parseVars, stages,
                   terminateCalls, enclaveRun, encVars, hashVars>>

\* whether the call x is on the stack of deferred calls
IsDeferred(stack, x) == \E i \in 1..Len(stack) : stack[i] = x

\* main returns: the deferred calls run, last first.  terminateEnclave runs
\* nitro-cli terminate-enclave, which may fail.
HostReturn ==
    /\ hostPc = "return"
    /\ hostPc' = "returned"
    /\ deferred' = <<>>
    /\ conn' = IF IsDeferred(deferred, "conn.Close") THEN "closed" ELSE conn
    /\ listener' = IF IsDeferred(deferred, "listener.Close") THEN "closed" ELSE listener
    /\ IF IsDeferred(deferred, "terminateEnclave")
       THEN /\ terminateCalls' = Append(terminateCalls, enclaveID)
            /\ \E ok \in BOOLEAN :
                  enclaveRun' = IF ok THEN "terminated" ELSE enclaveRun
       ELSE UNCHANGED <<terminateCalls, enclaveRun>>
    /\ UNCHANGED <<fatal, enclaveID, recvVars, parseVars, shaLog, stages,
                   encVars, hashVars>>

(***************************************************************************)
(* enclave/main.go: main.  The enclave runs from its launch until the host *)
(* terminates it.                                                          *)
(***************************************************************************)
hostVars == <<hostPc, fatal, deferred, enclaveID, sockVars, recvVars, parseVars,
              shaLog, stages, terminateCalls, enclaveRun>>

\* attestationDoc, err := getAttestationDocument()
EnclaveGetDoc ==
    /\ enclaveRun = "running"
    /\ encPc = "getDoc"
    /\ \/ encPc' = "fatal" /\ UNCHANGED encDoc
       \/ \E d \in Docs : encDoc' = d /\ encPc' = "dial"
    /\ UNCHANGED <<hostVars, sent, wire, encConn, hashVars>>

\* conn, err := vsock.Dial(parentCID, parentPort, nil); defer conn.Close()
EnclaveDial ==
    /\ enclaveRun = "running"
    /\ encPc = "dial"
    /\ \/ listener = "open" /\ encPc' = "sendLen" /\ encConn' = "open"
       \/ encPc' = "fatal" /\ UNCHANGED encConn
    /\ UNCHANGED <<hostVars, encDoc, sent, wire, hashVars>>

\* docLen := uint32(len(attestationDoc)); PutUint32(lenBytes, docLen).  The
\* conversion to uint32 keeps every length the model reaches.
encLenBytes == PutUint32(Len(encDoc))

\* conn.Write(lenBytes): all bytes are written, or the write fails after
\* n < 4 of them and log.Fatalf ends the process, closing the connection
EnclaveSendLen ==
    /\ enclaveRun = "running"
    /\ encPc = "sendLen"
    /\ \E n \in 0..4 :
          /\ wire' = wire \o SubSeq(encLenBytes, 1, n)
          /\ sent' = sent \o SubSeq(encLenBytes, 1, n)
          /\ IF n = 4 THEN encPc' = "sendDoc" /\ UNCHANGED encConn
             ELSE encPc' = "fatal" /\ encConn' = "closed"
    /\ UNCHANGED <<hostVars, encDoc, hashVars>>

\* conn.Write(attestationDoc), then main returns and the deferred
\* conn.Close() runs; or the write fails part-way and log.Fatalf ends the
\* process
EnclaveSendDoc ==
    /\ enclaveRun = "running"
    /\ encPc = "sendDoc"
    /\ \E n \in 0..Len(encDoc) :
          /\ wire' = wire \o SubSeq(encDoc, 1, n)
          /\ sent' = sent \o SubSeq(encDoc, 1, n)
          /\ encPc' = IF n = Len(encDoc) THEN "done" ELSE "fatal"
    /\ encConn' = "closed"
    /\ UNCHANGED <<hostVars, encDoc, hashVars>>

Next ==
    \/ HostBuild
    \/ HostLaunch
    \/ HostListen
    \/ HostAccept
    \/ HostReceiveLen
    \/ HostReceiveDoc
    \/ HostParse
    \/ HostInstance
    \/ HostReturn
    \/ EnclaveGetDoc
    \/ EnclaveDial
    \/ EnclaveSendLen
    \/ EnclaveSendDoc

Spec == Init /\ [][Next]_vars

(***************************************************************************)
(* parseAttestationDocumentGo and the loop that logs the PCRs, applied to  *)
(* every document of CoseItems: main has launched the enclave, accepted    *)
(* its connection and received a one-byte document.                        *)
(***************************************************************************)
ParseInit ==
    /\ hostPc = "parse"
    /\ fatal = NoFatal
    /\ deferred = <<"terminateEnclave", "listener.Close", "conn.Close">>
    /\ enclaveID = "i-0abc-enc0123"
    /\ listener = "open"
    /\ conn = "open"
    /\ lenBytes = <<0, 0, 0, 1>>
    /\ docLen = 1
    /\ attestationDoc = SomeBytes(<<255>>)
    /\ received = "ok"
    /\ consumed = 5
    /\ coseItem = NotCbor
    /\ parsed = NotParsed
    /\ presented = <<>>
    /\ shaLog = <<>>
    /\ stages = <<"receive">>
    /\ terminateCalls = <<>>
    /\ enclaveRun = "running"
    /\ encPc = "done"
    /\ encDoc = <<255>>
    /\ sent = <<0, 0, 0, 1, 255>>
    /\ wire = <<>>
    /\ encConn = "closed"
    /\ hInput = <<>>
    /\ hCalls = <<>>

ParseAny == ParseAndReport(CoseItems)

SpecParse == ParseInit /\ [][ParseAny]_vars

(***************************************************************************)
(* CalculateSHA384 on its own: applied repeatedly to one input.            *)
(***************************************************************************)
HashInit == MainInit /\ hInput \in Inputs /\ hCalls = <<>>

HashCall ==
    /\ Len(hCalls) < MaxCalls
    /\ hCalls' = Append(hCalls, CalculateSHA384(hInput))
    /\ UNCHANGED <<hostVars, encVars, hInput>>

SpecHash == HashInit /\ [][HashCall]_vars

(***************************************************************************)
(* Properties.                                                             *)
(***************************************************************************)
IsPrefix(a, b) == Len(a) <= Len(b) /\ SubSeq(b, 1, Len(a)) = a

\* the frame of a document shorter than 256 bytes: its length as four
\* big-endian bytes, then the document
FrameOf(doc) == <<0, 0, 0, Len(doc)>> \o doc

\* parseAttestationDocumentGo has returned
ParseReturned == parsed.err # "not run"

\* the decoded outer value is an array with a byte string at index 2
EnvelopeWellFormed ==
    /\ coseItem.kind = "array"
    /\ Len(coseItem.items) >= 4
    /\ coseItem.items[3].kind = "bstr"

\* the data item the payload encodes (of a well-formed envelope)
ReportItem == coseItem.items[3].items[1]

\* the pcrs map of a document that parsed: key item -> value item
PcrsItems == ReportItem.map[PcrsTstr].map

\* the entries of the pcrs map whose key is an unsigned integer and whose
\* value is a byte string
UintEntries == {k \in DOMAIN PcrsItems : k.kind = "uint" /\ PcrsItems[k].kind = "bstr"}

ZeroEntries == {k \in UintEntries : PcrsItems[k].bytes = Repeat(0, 48)}

Zeros96 == Repeat("0", 96)

\* C1: once the enclave has written the 4-byte big-endian length and the
\* document, receiveAttestationDocument, when it returns, has read exactly
\* 4 + L bytes and returns the document unchanged, with no error
FramingRoundTrip ==
    (received # "pending" /\ sent = FrameOf(encDoc)) =>
        /\ received = "ok"
        /\ ~attestationDoc.isNil
        /\ attestationDoc.bytes = encDoc
        /\ consumed = 4 + Len(encDoc)
        /\ wire = <<>>

FramingRoundTripWitness ==
    /\ received = "ok"
    /\ sent = FrameOf(encDoc)
    /\ Len(encDoc) = 2
    /\ encDoc[1] # encDoc[2]
    /\ attestationDoc.bytes = encDoc

\* C2: when the stream closes before the 4 header bytes and the L document
\* bytes have all been sent, receiveAttestationDocument returns an error and
\* a nil document, never a partial one
TruncatedFrameFails ==
    (received # "pending" /\ encConn = "closed" /\ Len(sent) < 4 + Len(encDoc)) =>
        /\ received = "err"
        /\ attestationDoc = NilBytes
        /\ hostPc = "fatal"
        /\ fatal.err = IF Len(sent) < 4 THEN ErrReadLength ELSE ErrReadContent

TruncatedFrameFailsWitness ==
    /\ received = "err"
    /\ Len(sent) = 4
    /\ Len(encDoc) >= 1
    /\ fatal.err = ErrReadContent
    /\ attestationDoc.isNil

\* C3: a decoded outer array with fewer than 4 elements, or with 4 or more
\* whose element 2 is not a byte string, makes parseAttestationDocumentGo
\* return its malformed-COSE error and a nil table without decoding the
\* payload
MalformedEnvelopeRejected ==
    (ParseReturned /\ coseItem.kind = "array") =>
        /\ Len(coseItem.items) < 4 =>
              /\ parsed.err = ErrTooFewElements
              /\ parsed.isNil /\ parsed.pcrTable = EmptyMap
              /\ parsed.steps = <<"envelope">>
        /\ (Len(coseItem.items) >= 4 /\ coseItem.items[3].kind # "bstr") =>
              /\ parsed.err = ErrPayloadType
              /\ parsed.isNil /\ parsed.pcrTable = EmptyMap
              /\ parsed.steps = <<"envelope">>

MalformedEnvelopeRejectedWitness ==
    /\ ParseReturned
    /\ coseItem.kind = "array"
    /\ Len(coseItem.items) = 3
    /\ coseItem.items[3].kind = "bstr"
    /\ parsed.err = ErrTooFewElements

\* C4: for a well-formed envelope whose payload decodes to a map, a missing
\* "pcrs" key or a "pcrs" value that is not a map makes
\* parseAttestationDocumentGo return its pcrs error and a nil table,
\* whatever other keys are present
MissingPcrsRejected ==
    (/\ ParseReturned
     /\ EnvelopeWellFormed
     /\ ReportItem.kind = "map"
     /\ \A k \in DOMAIN ReportItem.map : k.kind = "tstr"
     /\ \/ PcrsTstr \notin DOMAIN ReportItem.map
        \/ ReportItem.map[PcrsTstr].kind # "map") =>
        /\ parsed.err = ErrPcrsField
        /\ parsed.isNil /\ parsed.pcrTable = EmptyMap
        /\ presented = <<>>
        /\ hostPc = "fatal"

MissingPcrsRejectedWitness ==
    /\ ParseReturned
    /\ EnvelopeWellFormed
    /\ ReportItem.kind = "map"
    /\ DOMAIN ReportItem.map = {PcrsTstr, ModuleIdTstr}
    /\ ReportItem.map[PcrsTstr].kind = "array"
    /\ parsed.err = ErrPcrsField

\* C5: when the document parses, the table holds exactly the entries with an
\* integer key and a byte-string value, and every other entry is reported as
\* skipped exactly once
EntryFaultTolerance ==
    (parsed.err = ErrNone) =>
        LET wellFormed == {k \in DOMAIN PcrsItems :
                              /\ k.kind \in {"uint", "negint"}
                              /\ PcrsItems[k].kind = "bstr"}
            malformed == (DOMAIN PcrsItems) \ wellFormed
        IN  /\ Cardinality(DOMAIN parsed.pcrTable) = Cardinality(wellFormed)
            /\ \A k \in wellFormed :
                  /\ \E x \in DOMAIN parsed.pcrTable :
                        parsed.pcrTable[x] = EncodeToString(PcrsItems[k].bytes)
                  /\ \A i \in 1..Len(parsed.warnings) :
                        parsed.warnings[i].k # DecodeInterface(k)
            /\ Len(parsed.warnings) = Cardinality(malformed)
            /\ \A k \in malformed :
                  \E i \in 1..Len(parsed.warnings) :
                        parsed.warnings[i].k = DecodeInterface(k)

PipelineOrder ==
    /\ IsPrefix(stages, <<"receive", "envelope", "payload", "pcrs", "report">>)
    /\ received = "err" =>
          /\ hostPc = "fatal" /\ fatal.step = "receive"
          /\ fatal.err \in {ErrReadLength, ErrReadContent}
          /\ stages = <<"receive">>
          /\ ~ParseReturned
          /\ presented = <<>>
    /\ (ParseReturned /\ parsed.err # ErrNone) =>
          /\ hostPc = "fatal" /\ fatal.step = "parse"
          /\ fatal.err = parsed.err
          /\ parsed.err \in {ErrUnmarshalOuter, ErrTooFewElements, ErrPayloadType} =>
                stages = <<"receive", "envelope">>
          /\ parsed.err \in {ErrUnmarshalInner, ErrPcrsField} =>
                stages = <<"receive", "envelope", "payload">>
          /\ presented = <<>>
    /\ ParseReturned => received = "ok"
    /\ presented # <<>> => parsed.err = ErrNone

PipelineOrderWitness ==
    /\ hostPc = "fatal"
    /\ fatal.err = ErrPcrsField
    /\ stages = <<"receive", "envelope", "payload">>

\* one Hash384 over a whole buffer
Hash384(buf) == Sum(Write(New384, buf))

LowerHex == {"0", "1", "2", "3", "4", "5", "6", "7", "8", "9",
             "a", "b", "c", "d", "e", "f"}

\* C8: every call of CalculateSHA384 returns the lowercase hex rendering of
\* one Hash384 over 48 zero bytes followed by the UTF-8 bytes of the input,
\* 96 characters long, and two calls on the same input agree
Sha384Contract ==
    \A i \in 1..Len(hCalls) :
        /\ hCalls[i] = EncodeToString(Hash384(Repeat(0, 48) \o StringBytes(hInput)))
        /\ Len(hCalls[i]) = 96
        /\ \A j \in 1..Len(hCalls[i]) : hCalls[i][j] \in LowerHex
        /\ \A j \in 1..Len(hCalls) : hCalls[j] = hCalls[i]

Sha384ContractWitness ==
    /\ Len(hCalls) = 2
    /\ hInput = <<105, 45, 233>>
    /\ Len(hCalls[2]) = 96
    /\ hCalls[1] = hCalls[2]
    /\ hCalls[2] # CalculateSHA384(<<>>)

\* C9: every entry with an unsigned 64-bit key and a byte-string value is in
\* the table under the decimal rendering of that key; no rendered index is
\* negative and distinct keys get distinct table keys
UnsignedKeyRendering ==
    (parsed.err = ErrNone) =>
        /\ \A k \in UintEntries :
              /\ FormatUint(k.bytes) \in DOMAIN parsed.pcrTable
              /\ parsed.pcrTable[FormatUint(k.bytes)] = EncodeToString(PcrsItems[k].bytes)
        /\ \A x \in DOMAIN parsed.pcrTable : x[1] # "-"
        /\ Cardinality(DOMAIN parsed.pcrTable) = Cardinality(UintEntries)

\* C10: once launchEnclave has succeeded, terminateEnclave has been run for
\* the enclave's ID whenever main has exited
TerminatedOnEveryExit ==
    (hostPc \in {"fatal", "returned"} /\ enclaveRun # "absent") =>
        \E i \in 1..Len(terminateCalls) : terminateCalls[i] = enclaveID

=============================================================================
